---- MODULE Spec2Model ----
(***************************************************************************)
(* One call of describe_pet (src/pet_description.py) as a state machine:   *)
(* the options file is read, the three configuration layers are merged,    *)
(* language and engine are validated, the image is loaded, one request is  *)
(* posted to the backend and the answer is mapped to a result record.      *)
(* Python values are tagged records [t, v]; dicts are functions whose      *)
(* DOMAIN is the set of keys present.                                      *)
(***************************************************************************)
EXTENDS Naturals, Sequences, FiniteSets, TLC

VARIABLES pc, image, params, params_file, json_params, warned, config,
          language, model_name, image_data, posted, backend, response,
          result, exception

vars == <<pc, image, params, params_file, json_params, warned, config,
          language, model_name, image_data, posted, backend, response,
          result, exception>>

(* ---------------------------- Python values ---------------------------- *)

Str(s) == [t |-> "str", v |-> s]

Num(s) == [t |-> "num", v |-> s]

None == [t |-> "none", v |-> "None"]

Dict(d) == [t |-> "dict", d |-> d]

JsonList == [t |-> "list", d |-> <<>>]

EmptyDict == [k \in {} |-> None]

Range(s) == {s[i] : i \in DOMAIN s}

\* {**a, **b}: the keys of both, b's value where both have the key
DictMerge(a, b) ==
    [k \in (DOMAIN a) \cup (DOMAIN b) |-> IF k \in DOMAIN b THEN b[k] ELSE a[k]]

\* d.get(k, default)
DictGet(d, k, default) == IF k \in DOMAIN d THEN d[k] ELSE default

\* str.lower() on the strings of the model
Lower(s) ==
    CASE s = "Hebrew"  -> "hebrew"
      [] s = "ENGLISH" -> "english"
      [] s = "QWEN-VL" -> "qwen-vl"
      [] OTHER         -> s

\* x.lower() exists only on a str: None and numbers raise AttributeError
HasLower(x) == x.t = "str"

(* ------------------------------ Constants ------------------------------ *)

Fields == {"ollama_base_url", "language", "temperature", "max_tokens",
           "prompt", "llm_engine"}

default_params ==
    [ollama_base_url |-> Str("http://localhost:11434"),
     language        |-> Str("english"),
     temperature     |-> Num("0.7"),
     max_tokens      |-> Num("512"),
     prompt          |-> None]

valid_languages == <<"english", "hebrew">>

valid_engines == <<"llava", "qwen-vl">>

\* the engine name used as the model name
ModelMapIdentity == [k \in {"llava", "qwen-vl"} |-> k]

model_map == [k \in Range(valid_engines) |->
                 IF k = "llava" THEN "llava" ELSE "qwen3-vl"]

prompts ==
    [k \in Range(valid_languages) |->
       IF k = "english"
       THEN "Describe this pet in detail. Include information about the type of animal, breed (if identifiable), colors, size, pose, and any distinctive features."
       ELSE "תאר את חיית המחמד הזו בפירוט. כלול מידע על סוג החיה, גזע (אם ניתן לזיהוי), צבעים, גודל, תנוחה, וכל מאפיינים ייחודיים."]

\* the English template whatever the language
EnglishPromptOnly(lang) == prompts["english"]

\* prompts.get(language.lower(), prompts['english'])
_get_prompt_for_language(lang) ==
    DictGet(prompts, Lower(lang), prompts["english"])

POST_TIMEOUT == 120

(* ------------------------------- Inputs -------------------------------- *)

\* the most option keys the options file and the caller supply together
MaxKeys == 3

\* values an options file or a caller may give to a field
FieldValues(f) ==
    CASE f = "language"   -> {Str("english"), Str("ENGLISH"), Str("Hebrew"),
                              Str("french"), None}
      [] f = "llm_engine" -> {Str("llava"), Str("QWEN-VL"), Str("foo"), None}
      [] f = "prompt"     -> {None, Str(""), Str("What animal is this?")}
      [] f = "temperature" -> {Num("0.5"), Num("0.9")}
      [] f = "max_tokens" -> {Num("1024")}
      [] OTHER            -> {Str("http://gpu:11434")}

\* the dicts with exactly the keys ks
DictsOver(ks) ==
    {d \in [ks -> UNION {FieldValues(f) : f \in ks}] :
        \A f \in ks : d[f] \in FieldValues(f)}

DictsUpTo(n) ==
    UNION {DictsOver(ks) : ks \in {s \in SUBSET Fields : Cardinality(s) <= n}}

NoFile == [kind |-> "absent", content |-> None]

\* the options file: absent, unreadable, not JSON, not UTF-8, JSON that is
\* not an object, or a JSON object
FilesUpTo(n) ==
    {NoFile,
     [kind |-> "unreadable", content |-> None],
     [kind |-> "bad_json", content |-> None],
     [kind |-> "bad_utf8", content |-> None],
     [kind |-> "json", content |-> JsonList]}
    \cup {[kind |-> "json", content |-> Dict(d)] : d \in DictsUpTo(n)}

KeysOf(x) == IF x.t = "dict" THEN Cardinality(DOMAIN x.d) ELSE 0

\* the image argument: a path (readable or not), bytes, a PIL image (that
\* saves as PNG or not), or a value of another type
Images ==
    {[kind |-> "path", ok |-> TRUE], [kind |-> "path", ok |-> FALSE],
     [kind |-> "bytes", ok |-> TRUE],
     [kind |-> "pil", ok |-> TRUE], [kind |-> "pil", ok |-> FALSE],
     [kind |-> "other", ok |-> FALSE]}

\* what the backend does with the request
Outcomes ==
    {[kind |-> "refused", body |-> None],
     [kind |-> "timeout", body |-> None],
     [kind |-> "status_500", body |-> None],
     [kind |-> "ok", body |-> [t |-> "invalid", d |-> <<>>]],
     [kind |-> "ok", body |-> JsonList],
     [kind |-> "ok", body |-> Dict(EmptyDict)],
     [kind |-> "ok", body |-> Dict([response |-> ""])],
     [kind |-> "ok", body |-> Dict([response |-> "A brown dog."])]}

(* -------------------------------- Init --------------------------------- *)

Init ==
    /\ pc = "start"
    /\ image \in Images
    /\ params \in {None} \cup {Dict(d) : d \in DictsUpTo(MaxKeys)}
    /\ params_file \in FilesUpTo(MaxKeys - KeysOf(params))
    /\ json_params = None
    /\ warned = FALSE
    /\ config = EmptyDict
    /\ language = ""
    /\ model_name = ""
    /\ image_data = ""
    /\ posted = <<>>
    /\ backend = [kind |-> "idle", body |-> None]
    /\ response = None
    /\ result = EmptyDict
    /\ exception = ""

(* ---------------------------- Result records --------------------------- *)

Join(seq) == IF Len(seq) = 2 THEN <<seq[1], ", ", seq[2]>> ELSE seq

InvalidLanguageResult(lang) ==
    [success |-> FALSE,
     error   |-> <<"Invalid language: ", lang, ". Must be one of: ">>
                 \o Join(valid_languages)]

MissingEngineResult ==
    [success |-> FALSE,
     error   |-> <<"llm_engine parameter is required. Options: llava, qwen-vl">>]

\* the engine failure carrying a model identifier as the later failures do
InvalidEngineResultWithModel(engine) ==
    [success    |-> FALSE,
     error      |-> <<"Invalid llm_engine: ", engine, ". Must be one of: ">>
                    \o <<"llava", ", ", "qwen-vl">>,
     model_used |-> engine]

InvalidEngineResult(engine) ==
    [success |-> FALSE,
     error   |-> <<"Invalid llm_engine: ", engine, ". Must be one of: ">>
                 \o Join(valid_engines)]

\* the backend failure without the model identifier
RequestExceptionResultNoModel(e, model) ==
    [success |-> FALSE, error |-> <<"Ollama API error: ", e>>]

RequestExceptionResult(e, model) ==
    [success |-> FALSE, error |-> <<"Ollama API error: ", e>>, model_used |-> model]

UnexpectedResult(e, model) ==
    [success |-> FALSE, error |-> <<"Unexpected error: ", e>>, model_used |-> model]

SuccessResult(res, model, lang) ==
    [success       |-> TRUE,
     description   |-> DictGet(res, "response", ""),
     model_used    |-> model,
     language_used |-> lang,
     full_response |-> res]

\* the return statements of describe_pet and an exception leaving it
Return(r) == /\ result' = r
             /\ pc' = "done"
             /\ exception' = ""

Raise(e) == /\ exception' = e
            /\ pc' = "raised"
            /\ result' = result

(* ------------------------------- Actions ------------------------------- *)

\* load_params(): {} unless the file exists and json.load returns a value;
\* only JSONDecodeError and IOError are caught
LoadParams ==
    /\ pc = "start"
    /\ UNCHANGED <<image, params, params_file, config, language, model_name,
                   image_data, posted, backend, response>>
    /\ CASE params_file.kind = "absent" ->
              /\ json_params' = Dict(EmptyDict)
              /\ warned' = FALSE
              /\ pc' = "loaded"
              /\ UNCHANGED <<result, exception>>
         [] params_file.kind \in {"unreadable", "bad_json"} ->
              /\ json_params' = Dict(EmptyDict)
              /\ warned' = TRUE
              /\ pc' = "loaded"
              /\ UNCHANGED <<result, exception>>
         [] params_file.kind = "bad_utf8" ->
              /\ UNCHANGED <<json_params, warned>>
              /\ Raise("UnicodeDecodeError")
         [] OTHER ->
              /\ json_params' = params_file.content
              /\ warned' = FALSE
              /\ pc' = "loaded"
              /\ UNCHANGED <<result, exception>>

\* the merge with the last two layers exchanged
MergeConfigFileWins(defaults, file, caller) ==
    DictMerge(DictMerge(defaults, caller), file)

\* config = {**default_params, **json_params, **params}, params None read as {}
MergeConfig(defaults, file, caller) ==
    DictMerge(DictMerge(defaults, file), caller)

Merge ==
    /\ pc = "loaded"
    /\ UNCHANGED <<image, params, params_file, json_params, warned, language,
                   model_name, image_data, posted, backend, response>>
    /\ IF json_params.t # "dict"
       THEN /\ Raise("TypeError")
            /\ UNCHANGED config
       ELSE /\ config' = MergeConfig(default_params, json_params.d,
                             IF params = None THEN EmptyDict ELSE params.d)
            /\ pc' = "merged"
            /\ UNCHANGED <<result, exception>>

\* the language check left out
LanguageValidSkipped(lang) == TRUE

\* language = config.get('language', 'english').lower(), then the membership test
LanguageValid(lang) == lang \in Range(valid_languages)

ValidateLanguage ==
    /\ pc = "merged"
    /\ UNCHANGED <<image, params, params_file, json_params, warned, config,
                   model_name, image_data, posted, backend, response>>
    /\ LET raw == DictGet(config, "language", Str("english")) IN
       IF ~HasLower(raw)
       THEN /\ Raise("AttributeError")
            /\ UNCHANGED language
       ELSE /\ language' = Lower(raw.v)
            /\ IF LanguageValid(Lower(raw.v))
               THEN /\ pc' = "language_ok"
                    /\ UNCHANGED <<result, exception>>
               ELSE Return(InvalidLanguageResult(Lower(raw.v)))

\* if config.get('prompt') is None
PromptMissing(cfg) == DictGet(cfg, "prompt", None) = None

SetPrompt ==
    /\ pc = "language_ok"
    /\ UNCHANGED <<image, params, params_file, json_params, warned, language,
                   model_name, image_data, posted, backend, response, result,
                   exception>>
    /\ config' = IF PromptMissing(config)
                 THEN DictMerge(config,
                        [prompt |-> Str(_get_prompt_for_language(language))])
                 ELSE config
    /\ pc' = "prompt_set"

\* the second engine forgotten
EngineValidLlavaOnly(engine) == engine = "llava"

EngineValid(engine) == engine \in Range(valid_engines)

ValidateEngine ==
    /\ pc = "prompt_set"
    /\ UNCHANGED <<image, params, params_file, json_params, warned, config,
                   language, image_data, posted, backend, response>>
    /\ IF "llm_engine" \notin DOMAIN config
       THEN /\ Return(MissingEngineResult)
            /\ UNCHANGED model_name
       ELSE IF ~HasLower(config["llm_engine"])
       THEN /\ Raise("AttributeError")
            /\ UNCHANGED model_name
       ELSE LET llm_engine == Lower(config["llm_engine"].v) IN
            IF EngineValid(llm_engine)
            THEN /\ model_name' = model_map[llm_engine]
                 /\ pc' = "engine_ok"
                 /\ UNCHANGED <<result, exception>>
            ELSE /\ Return(InvalidEngineResult(llm_engine))
                 /\ UNCHANGED model_name

\* no final else: a value of another type is passed on as bytes
LoadImageAnyType(img) ==
    IF img.kind \in {"path", "pil"} /\ ~img.ok
    THEN [raised |-> "OSError", data |-> ""]
    ELSE [raised |-> "", data |-> "RAW_BYTES"]

\* _load_image: the bytes of the image, or the exception it raises
_load_image(img) ==
    CASE img.kind = "path"  -> IF img.ok THEN [raised |-> "", data |-> "FILE_BYTES"]
                               ELSE [raised |-> "OSError", data |-> ""]
      [] img.kind = "bytes" -> [raised |-> "", data |-> "RAW_BYTES"]
      [] img.kind = "pil"   -> IF img.ok THEN [raised |-> "", data |-> "PNG_BYTES"]
                               ELSE [raised |-> "OSError", data |-> ""]
      [] OTHER              -> [raised |-> "ValueError", data |-> ""]

\* the except clauses of describe_pet
Handle(e, model) ==
    IF e = "RequestException" THEN RequestExceptionResult(e, model)
    ELSE UnexpectedResult(e, model)

LoadImage ==
    /\ pc = "engine_ok"
    /\ UNCHANGED <<image, params, params_file, json_params, warned, config,
                   language, model_name, posted, backend, response>>
    /\ LET got == _load_image(image) IN
       IF got.raised # ""
       THEN /\ Return(Handle(got.raised, model_name))
            /\ UNCHANGED image_data
       ELSE /\ image_data' = got.data
            /\ pc' = "image_loaded"
            /\ UNCHANGED <<result, exception>>

b64encode(data) == <<"base64", data>>

Payload(cfg, model, data) ==
    [model   |-> model,
     prompt  |-> cfg["prompt"],
     images  |-> <<b64encode(data)>>,
     stream  |-> FALSE,
     options |-> [temperature |-> DictGet(cfg, "temperature", Num("0.7")),
                  num_predict |-> DictGet(cfg, "max_tokens", Num("512"))]]

\* requests.post(...) and raise_for_status(): one request, and the backend
\* refuses, times out, answers with an error status or with a 2xx body
Post ==
    /\ pc = "image_loaded"
    /\ UNCHANGED <<image, params, params_file, json_params, warned, config,
                   language, model_name, image_data>>
    /\ posted' = Append(posted,
                    [url     |-> <<config["ollama_base_url"], "/api/generate">>,
                     json    |-> Payload(config, model_name, image_data),
                     timeout |-> POST_TIMEOUT])
    /\ \E o \in Outcomes :
         /\ backend' = o
         /\ IF o.kind # "ok"
            THEN /\ Return(Handle("RequestException", model_name))
                 /\ UNCHANGED response
            ELSE /\ response' = o.body
                 /\ pc' = "answered"
                 /\ UNCHANGED <<result, exception>>

\* response.json(), result.get('response', '') and the success record; a body
\* that is not JSON raises a ValueError that newer versions of requests also
\* derive from RequestException
ParseResponse ==
    /\ pc = "answered"
    /\ UNCHANGED <<image, params, params_file, json_params, warned, config,
                   language, model_name, image_data, posted, backend, response>>
    /\ CASE response.t = "invalid" ->
              \E e \in {"RequestException", "ValueError"} :
                 Return(Handle(e, model_name))
         [] response.t = "dict" ->
              Return(SuccessResult(response.d, model_name, language))
         [] OTHER -> Return(Handle("AttributeError", model_name))

Next ==
    \/ LoadParams
    \/ Merge
    \/ ValidateLanguage
    \/ SetPrompt
    \/ ValidateEngine
    \/ LoadImage
    \/ Post
    \/ ParseResponse

Spec == Init /\ [][Next]_vars

(* ------------------------ Vocabulary of the claims --------------------- *)

\* the caller's overrides and the options file's fields, from the inputs
CallerDict == IF params.t = "dict" THEN params.d ELSE EmptyDict

FileDict == IF params_file.kind = "json" /\ params_file.content.t = "dict"
            THEN params_file.content.d ELSE EmptyDict

Supplied(f) == f \in (DOMAIN CallerDict) \cup (DOMAIN FileDict)
                     \cup (DOMAIN default_params)

\* caller first, then file, then built-in default
Precedence(f) == IF f \in DOMAIN CallerDict THEN CallerDict[f]
                 ELSE IF f \in DOMAIN FileDict THEN FileDict[f]
                 ELSE default_params[f]

\* the program is past the merge of line 96
AfterMerge == pc \in {"merged", "language_ok", "prompt_set", "engine_ok",
                      "image_loaded", "answered", "done"}
              \/ (pc = "raised" /\ exception = "AttributeError")

\* the error kinds of the specification, read off the message of a failure
ErrKind ==
    IF pc # "done" \/ result.success THEN "none"
    ELSE CASE result.error[1] = "Invalid language: " -> "InvalidLanguage"
           [] result.error[1] = "Invalid llm_engine: " -> "InvalidEngine"
           [] result.error[1] = "Ollama API error: " -> "BackendError"
           [] result.error[1] = "Unexpected error: " -> "UnexpectedError"
           [] OTHER -> "MissingEngine"

\* the merged language is a string that is neither english nor hebrew in any case
LanguageUnsupported ==
    /\ Precedence("language").t = "str"
    /\ Precedence("language").v \notin
          {"english", "ENGLISH", "hebrew", "Hebrew"}

LanguageSupported ==
    /\ Precedence("language").t = "str"
    /\ Precedence("language").v \in {"english", "ENGLISH", "hebrew", "Hebrew"}

EngineSupplied == "llm_engine" \in (DOMAIN CallerDict) \cup (DOMAIN FileDict)

EngineSupported ==
    /\ EngineSupplied
    /\ Precedence("llm_engine").t = "str"
    /\ Precedence("llm_engine").v \in {"llava", "qwen-vl", "QWEN-VL"}

EngineUnsupported ==
    /\ EngineSupplied
    /\ Precedence("llm_engine").t = "str"
    /\ ~EngineSupported

(* -------------------------------- Claims ------------------------------- *)

\* C1: once the configuration is merged, every field has the caller's value
\* if the caller supplies it, otherwise the options file's value if the file
\* supplies it, otherwise the built-in default, and a field no layer supplies
\* is absent; only the prompt is later replaced when it is None.
C1_MergePrecedence ==
    AfterMerge =>
      \A f \in Fields :
        /\ (f \in DOMAIN config) <=> Supplied(f)
        /\ (Supplied(f) /\ (f # "prompt" \/ pc = "merged"))
              => config[f] = Precedence(f)

C1_Witness ==
    /\ pc = "merged"
    /\ "temperature" \in DOMAIN FileDict
    /\ FileDict["temperature"] = Num("0.5")
    /\ "temperature" \in DOMAIN CallerDict
    /\ CallerDict["temperature"] = Num("0.9")
    /\ config["temperature"] = Num("0.9")
    /\ config["max_tokens"] = Num("512")

\* C2: when the merged language is a string other than english or hebrew
\* (in any case), the call never gets past the language check and ends in
\* the InvalidLanguage failure whatever the engine is; an engine error is
\* reported only when the language is valid.
C2_LanguageFirst ==
    /\ (AfterMerge /\ LanguageUnsupported) =>
          /\ pc \in {"merged", "done"}
          /\ pc = "done" => ErrKind = "InvalidLanguage"
    /\ ErrKind \in {"MissingEngine", "InvalidEngine"} => LanguageSupported

C2_Witness ==
    /\ pc = "done"
    /\ Precedence("language") = Str("french")
    /\ EngineUnsupported
    /\ ErrKind = "InvalidLanguage"

\* the prompt of the merged configuration, before any derivation
MergedPrompt == Precedence("prompt")

\* the prompts the program holds once validation has passed and the prompts
\* of the requests sent
ValidatedPrompts ==
    (IF pc \in {"engine_ok", "image_loaded", "answered"}
     THEN {config["prompt"]} ELSE {})
    \cup {posted[i].json.prompt : i \in DOMAIN posted}

\* C3 as stated: an absent or empty prompt is replaced by the template of the
\* language, so every validated prompt is non-null and non-empty.
C3_Original ==
    \A p \in ValidatedPrompts :
       /\ MergedPrompt \in {None, Str("")} => p = Str(prompts[language])
       /\ p \notin {None, Str("")}

\* C3 amended: for every supported language, a prompt that is absent or null
\* after the merge is replaced by the fixed template of that language; any
\* other prompt, the empty string included, is sent as it is; hence every
\* validated prompt is non-null.
C3_PromptDerivation ==
    \A p \in ValidatedPrompts :
       /\ language \in {"english", "hebrew"}
       /\ MergedPrompt = None => p = Str(prompts[language])
       /\ MergedPrompt # None => p = MergedPrompt
       /\ p # None

C3_Witness ==
    /\ Len(posted) = 1
    /\ MergedPrompt = None
    /\ language = "hebrew"
    /\ posted[1].json.prompt = Str(prompts["hebrew"])
    /\ prompts["hebrew"] # prompts["english"]

\* C4: with a valid language, a call whose engine neither the file nor the
\* caller supplies ends in MissingEngine; one whose engine is a string other
\* than the two supported identifiers (in any case) ends in InvalidEngine;
\* one whose engine is supported passes validation and ends in neither.
C4_EngineValidation ==
    (AfterMerge /\ LanguageSupported) =>
       /\ ~EngineSupplied =>
             /\ pc \in {"merged", "language_ok", "prompt_set", "done"}
             /\ pc = "done" => ErrKind = "MissingEngine"
       /\ EngineUnsupported =>
             /\ pc \in {"merged", "language_ok", "prompt_set", "done"}
             /\ pc = "done" => ErrKind = "InvalidEngine"
       /\ EngineSupported =>
             /\ pc # "raised"
             /\ ErrKind \notin {"MissingEngine", "InvalidEngine"}
             /\ pc = "done" => model_name # ""

C4_Witness ==
    /\ pc = "done"
    /\ LanguageSupported
    /\ EngineSupplied
    /\ Precedence("llm_engine") = Str("foo")
    /\ ErrKind = "InvalidEngine"

C4_WitnessMissing ==
    /\ pc = "done"
    /\ LanguageSupported
    /\ ~EngineSupplied
    /\ ErrKind = "MissingEngine"

\* C5: a call that ends in InvalidLanguage, MissingEngine or InvalidEngine has
\* sent no request and loaded no image, and its result has no model_used.
C5_ValidationBeforeNetwork ==
    ErrKind \in {"InvalidLanguage", "MissingEngine", "InvalidEngine"} =>
       /\ posted = <<>>
       /\ backend.kind = "idle"
       /\ image_data = ""
       /\ "model_used" \notin DOMAIN result

C5_Witness ==
    /\ ErrKind = "MissingEngine"
    /\ image.kind = "bytes"
    /\ posted = <<>>

\* the backend refused the connection, timed out or answered a non-2xx status
TransportFailure == backend.kind \in {"refused", "timeout", "status_500"}

\* C6: when the request fails at transport level the call returns a failure
\* tagged as a backend error, with the model identifier and no description;
\* no call sends more than one request.
C6_BackendFailure ==
    /\ Len(posted) <= 1
    /\ TransportFailure =>
          /\ pc = "done"
          /\ Len(posted) = 1
          /\ result.success = FALSE
          /\ ErrKind = "BackendError"
          /\ "model_used" \in DOMAIN result
          /\ result.model_used = model_name
          /\ model_name = posted[1].json.model
          /\ "description" \notin DOMAIN result

C6_Witness ==
    /\ pc = "done"
    /\ backend.kind = "timeout"
    /\ ErrKind = "BackendError"
    /\ result.model_used = "qwen3-vl"

\* the model of the fixed table for the engine in force
TableModel ==
    IF Precedence("llm_engine").v = "llava" THEN "llava"
    ELSE "qwen3-vl"

\* the language in force, in lower case
ResolvedLanguage ==
    IF Precedence("language").v \in {"english", "ENGLISH"} THEN "english"
    ELSE "hebrew"

\* C7: when the configuration is valid, the image loads and the backend
\* answers a success status with a JSON object, the call returns a success
\* record: description is the object's response field (the empty string if
\* absent), model_used is the table's model for the engine and the model
\* named in the request, language_used is the resolved language, and there
\* is no error field.
C7_SuccessResult ==
    (pc = "done" /\ backend.kind = "ok" /\ backend.body.t = "dict") =>
       /\ LanguageSupported /\ EngineSupported
       /\ result.success = TRUE
       /\ result.description =
             (IF "response" \in DOMAIN backend.body.d
              THEN backend.body.d["response"] ELSE "")
       /\ result.model_used = TableModel
       /\ result.model_used = posted[1].json.model
       /\ result.language_used = ResolvedLanguage
       /\ "error" \notin DOMAIN result

C7_Witness ==
    /\ pc = "done"
    /\ result.success = TRUE
    /\ result.description = "A brown dog."
    /\ Precedence("llm_engine") = Str("QWEN-VL")
    /\ result.model_used = "qwen3-vl"
    /\ result.language_used = "hebrew"

\* C8 as stated: no exception leaves describe_pet, whatever the image, the
\* options file and the caller's overrides are.
C8_NoUnhandledFault == pc # "raised"

\* normalizing the image argument to bytes fails
ImageFails == \/ image.kind \in {"path", "pil"} /\ ~image.ok
              \/ image.kind = "other"

ConfigValid == AfterMerge /\ LanguageSupported /\ EngineSupported

\* C9 as stated: a failed image load gives a failure result without a model
\* identifier, and no request is sent.
C9_Original ==
    (ConfigValid /\ ImageFails /\ pc = "done") =>
       /\ result.success = FALSE
       /\ "model_used" \notin DOMAIN result
       /\ posted = <<>>

\* C9 amended: when the configuration is valid and the image cannot be
\* normalized to bytes, the call returns the generic unexpected-error failure,
\* which does include the model identifier, and no request is sent.
C9_ImageLoadFailure ==
    (ConfigValid /\ ImageFails) =>
       /\ pc \notin {"image_loaded", "answered", "raised"}
       /\ posted = <<>>
       /\ backend.kind = "idle"
       /\ pc = "done" =>
             /\ result.success = FALSE
             /\ ErrKind = "UnexpectedError"
             /\ "model_used" \in DOMAIN result
             /\ result.model_used = TableModel
             /\ "description" \notin DOMAIN result

C9_Witness ==
    /\ pc = "done"
    /\ ConfigValid
    /\ image.kind = "other"
    /\ ErrKind = "UnexpectedError"
    /\ result.model_used = "llava"

\* the options file exists and is unreadable, not valid structured data, or
\* not a key/value mapping
Malformed ==
    \/ params_file.kind \in {"unreadable", "bad_json", "bad_utf8"}
    \/ params_file.kind = "json" /\ params_file.content.t # "dict"

\* C10 as stated: a malformed options file makes load_params yield the empty
\* mapping, and the configuration is resolved as if the file were absent:
\* the merge is reached and gives the defaults overridden by the caller.
C10_MalformedFileIgnored ==
    (Malformed /\ pc # "start") =>
       /\ json_params = Dict(EmptyDict)
       /\ exception \notin {"UnicodeDecodeError", "TypeError"}
       /\ pc # "loaded" => config = DictMerge(default_params, CallerDict)

====
